---- MODULE Spec2Model ----
(***************************************************************************)
(* Restaurant menu creator backend: the variant-generation session         *)
(* workflow of backend/app.py (request thread, background thread, session  *)
(* store, status poller), the retry loop of backend/nvidia_client.py and   *)
(* the composition step shared by the variant workflow and /api/generate.  *)
(*                                                                         *)
(* Python dicts are records whose DOMAIN is the set of keys present, lists *)
(* are sequences.  Timestamps (datetime.now) are left out of the records:  *)
(* no operation reads them.                                                *)
(***************************************************************************)
EXTENDS Integers, Sequences, FiniteSets, TLC

VARIABLES
    variant_sessions,  \* app.py: the in-memory session store (a dict)
    pc,                \* position of each /api/generate-variants request thread
    locals,            \* locals of each request thread (session_id, restaurant_name, items, variant1)
    bg,                \* position of each background thread
    response,          \* HTTP response of each /api/generate-variants request
    m_pc,              \* generate_menu_json: position in the retry loop
    m_attempt,         \* generate_menu_json: loop variable `attempt`
    m_seen,            \* outcomes of the remote completion calls made so far
    m_sleeps,          \* arguments of the time.sleep calls made so far
    m_result,          \* value returned by generate_menu_json
    c_in,              \* composition step: the arguments it is applied to
    c_out              \* composition step: what it returned and which remote calls it made

vars == <<variant_sessions, pc, locals, bg, response,
          m_pc, m_attempt, m_seen, m_sleeps, m_result, c_in, c_out>>

sessionVars == <<variant_sessions, pc, locals, bg, response>>
menuVars == <<m_pc, m_attempt, m_seen, m_sleeps, m_result>>
composeVars == <<c_in, c_out>>

-----------------------------------------------------------------------------
(* Bounds *)

NumRequests == 2        \* concurrent /api/generate-variants requests
MaxItems == 3           \* length of the item lists the composition step is tried on

(* Program constants *)

max_retries == 3
retry_delay == 2

-----------------------------------------------------------------------------
(* Python dict and list helpers *)

\* Python None where an object is expected, and where a string is expected
None == << >>
NoneStr == "None"

Get(d, k, default) == IF k \in DOMAIN d THEN d[k] ELSE default

DictSet(d, k, v) == [y \in DOMAIN d \cup {k} |-> IF y = k THEN v ELSE d[y]]

Range(s) == {s[i] : i \in DOMAIN s}

\* truth value of item.get('imageUrl'): None and '' are falsy
HasImage(item) == Get(item, "imageUrl", "") # ""

-----------------------------------------------------------------------------
(* backend/nvidia_client.py *)

_get_fallback_menu ==
    [restaurantName |-> "The Restaurant",
     items |-> << [category |-> "Appetizers", name |-> "Soup of the Day",
                   price |-> 6, description |-> "Fresh daily soup"],
                  [category |-> "Main Course", name |-> "Grilled Chicken",
                   price |-> 16, description |-> "Herb-marinated chicken breast"],
                  [category |-> "Desserts", name |-> "Cheesecake",
                   price |-> 7, description |-> "Classic New York style"] >>]

(* A response text of the completion service: an optional <think>..</think>  *)
(* block, an optional markdown fence, and the text inside.  The text is      *)
(* "" (empty), "garbage" (not JSON), or JSON: a list, or an object `obj`     *)
(* whose `items`, when present, is a list (`islist`) of objects or a string. *)
Text(kind, obj) == [kind |-> kind, obj |-> obj]
Content(think, fence, text) == [think |-> think, fence |-> fence, text |-> text]

ItemsList(elems) == [islist |-> TRUE, elems |-> elems]
ItemsString == [islist |-> FALSE, elems |-> <<>>]

GoodItem == [category |-> "Burgers", name |-> "Classic Burger", price |-> 9]
NamelessItem == [category |-> "Sides", price |-> 3]

GoodObj == [restaurantName |-> "Burger Barn", items |-> ItemsList(<<GoodItem>>)]
\* passes validation (only the first item is inspected), second item has no name
BadTailObj == [restaurantName |-> "Burger Barn", items |-> ItemsList(<<GoodItem, NamelessItem>>)]
NoNameObj == [items |-> ItemsList(<<GoodItem>>)]
NoItemsObj == [restaurantName |-> "Burger Barn"]
ItemsNotListObj == [restaurantName |-> "Burger Barn", items |-> ItemsString]
EmptyItemsObj == [restaurantName |-> "Burger Barn", items |-> ItemsList(<<>>)]
FirstItemBadObj == [restaurantName |-> "Burger Barn", items |-> ItemsList(<<NamelessItem, GoodItem>>)]

Objects == {GoodObj, BadTailObj, NoNameObj, NoItemsObj, ItemsNotListObj,
            EmptyItemsObj, FirstItemBadObj}

Texts == {Text("empty", None), Text("garbage", None), Text("jsonlist", None)}
            \cup {Text("json", o) : o \in Objects}

Contents == {Content(FALSE, FALSE, t) : t \in Texts}
              \cup {Content(TRUE, FALSE, Text("json", GoodObj)),
                    Content(FALSE, TRUE, Text("json", GoodObj)),
                    Content(TRUE, FALSE, Text("empty", None))}

\* what one call of client.chat.completions.create does
Outcome(kind, content) == [kind |-> kind, content |-> content]
Raises == {Outcome(k, None) : k \in {"RateLimitError", "APIError", "OpenAIError", "Exception"}}
\* message.content may be None: slicing it raises TypeError inside the try
Outcomes == Raises \cup {Outcome("ok", c) : c \in Contents} \cup {Outcome("ok_none", None)}

\* re.sub removes the <think> block; without one the content is returned as is
_extract_reasoning(content) == Content(FALSE, content.fence, content.text)

\* strips a leading ```json / ``` and a trailing ```
_clean_json(content) == Content(content.think, FALSE, content.text)

\* json.loads: "ok" with the parsed value, or JSONDecodeError
json_loads(content) ==
    IF content.think \/ content.fence \/ content.text.kind \in {"empty", "garbage"}
    THEN [ok |-> FALSE, data |-> None]
    ELSE [ok |-> TRUE, data |-> content.text]

\* a parsed JSON object as the Python dict the callers see
AsMenu(obj) ==
    IF "items" \in DOMAIN obj /\ obj.items.islist
    THEN DictSet(obj, "items", obj.items.elems)
    ELSE obj

_validate_response(content) ==
    IF ~content.think /\ ~content.fence /\ content.text.kind = "empty"
    THEN FALSE
    ELSE LET parsed == json_loads(_clean_json(content))
         IN  IF ~parsed.ok THEN FALSE
             ELSE IF parsed.data.kind = "jsonlist" THEN FALSE
             ELSE LET data == parsed.data.obj
                  IN  IF "restaurantName" \notin DOMAIN data THEN FALSE
                      ELSE IF "items" \notin DOMAIN data \/ ~data.items.islist THEN FALSE
                      ELSE IF Len(data.items.elems) = 0 THEN FALSE
                      ELSE LET first_item == data.items.elems[1]
                           IN  \A field \in {"category", "name", "price"} :
                                   field \in DOMAIN first_item

_parse_json_response(content) == AsMenu(json_loads(_clean_json(content)).data.obj)

\* mutant: the last attempt re-raises instead of falling back
MenuAttemptReraise(attempt, out) ==
    CASE out.kind \in {"RateLimitError", "APIError"} ->
           IF attempt < max_retries - 1
           THEN [kind |-> "retry", menu |-> None, sleep |-> retry_delay]
           ELSE [kind |-> "raise", menu |-> None, sleep |-> 0]
      [] OTHER -> [kind |-> "return", menu |-> _get_fallback_menu, sleep |-> 0]

(* One iteration of the retry loop of generate_menu_json, for loop variable  *)
(* `attempt` (0-based) and the outcome of the remote call:                    *)
(*   kind "return": the function returns `menu`;                              *)
(*   kind "retry":  it sleeps `sleep` seconds and goes to the next iteration; *)
(*   kind "raise":  an exception leaves the function.                         *)
Step(kind, menu, sleep) == [kind |-> kind, menu |-> menu, sleep |-> sleep]

\* mutant: a response that fails validation is retried like a rate limit
MenuAttemptRetryInvalid(attempt, out) ==
    CASE out.kind = "ok" ->
           LET final_answer == _extract_reasoning(out.content)
           IN  IF _validate_response(final_answer)
               THEN Step("return", _parse_json_response(final_answer), 0)
               ELSE IF attempt < max_retries - 1
                    THEN Step("retry", None, retry_delay * (attempt + 1))
                    ELSE Step("return", _get_fallback_menu, 0)
      [] out.kind = "RateLimitError" ->
           IF attempt < max_retries - 1
           THEN Step("retry", None, retry_delay * (attempt + 1))
           ELSE Step("return", _get_fallback_menu, 0)
      [] out.kind = "APIError" ->
           IF attempt < max_retries - 1
           THEN Step("retry", None, retry_delay)
           ELSE Step("return", _get_fallback_menu, 0)
      [] out.kind = "OpenAIError" -> Step("return", _get_fallback_menu, 0)
      [] OTHER -> Step("return", _get_fallback_menu, 0)

MenuAttempt(attempt, out) ==
    CASE out.kind = "ok" ->
           LET final_answer == _extract_reasoning(out.content)
           IN  IF _validate_response(final_answer)
               THEN Step("return", _parse_json_response(final_answer), 0)
               ELSE Step("return", _get_fallback_menu, 0)
      [] out.kind = "RateLimitError" ->
           IF attempt < max_retries - 1
           THEN Step("retry", None, retry_delay * (attempt + 1))
           ELSE Step("return", _get_fallback_menu, 0)
      [] out.kind = "APIError" ->
           IF attempt < max_retries - 1
           THEN Step("retry", None, retry_delay)
           ELSE Step("return", _get_fallback_menu, 0)
      [] out.kind = "OpenAIError" -> Step("return", _get_fallback_menu, 0)
      [] OTHER -> Step("return", _get_fallback_menu, 0)

(* generate_menu_json against a service whose successive calls give outs[1],  *)
(* outs[2], ...: the loop `for attempt in range(max_retries)`.                *)
RECURSIVE MenuLoop(_, _)
MenuLoop(attempt, outs) ==
    IF attempt >= max_retries
    THEN Step("return", _get_fallback_menu, 0)
    ELSE LET s == MenuAttempt(attempt, outs[attempt + 1])
         IN  IF s.kind = "retry" THEN MenuLoop(attempt + 1, outs) ELSE s

generate_menu_json(outs) == MenuLoop(0, outs)

OutcomeSeqs == [1..max_retries -> Outcomes]

\* every way a call of generate_menu_json can end
MenuResults == {generate_menu_json(outs) : outs \in OutcomeSeqs}

-----------------------------------------------------------------------------
(* backend/app.py: prompt builders *)

style_descriptions ==
    [modern  |-> "Modern clean design, minimalist, sharp typography, high contrast",
     vintage |-> "Vintage rustic style, chalkboard aesthetic, hand-drawn feel, warm colors",
     elegant |-> "Elegant upscale design, sophisticated fonts, gold accents, luxury feel",
     casual  |-> "Casual friendly design, bright colors, fun fonts, approachable layout"]

StyleDesc(style) == Get(style_descriptions, style, style_descriptions["modern"])

\* str.upper on the category names that occur
Upper(cat) ==
    CASE cat = "Appetizers" -> "APPETIZERS"
      [] cat = "Main Course" -> "MAIN COURSE"
      [] cat = "Desserts" -> "DESSERTS"
      [] cat = "Burgers" -> "BURGERS"
      [] cat = "Sides" -> "SIDES"
      [] cat = "Items" -> "ITEMS"
      [] OTHER -> cat

CategoryOf(item) == Get(item, "category", "Items")

\* keys of the `categories` dict in insertion order (first appearance)
RECURSIVE CategoryOrder(_, _)
CategoryOrder(items, seen) ==
    IF items = << >> THEN seen
    ELSE LET cat == CategoryOf(Head(items))
         IN  CategoryOrder(Tail(items),
                           IF cat \in Range(seen) THEN seen ELSE Append(seen, cat))

\* the items in the order the two nested loops visit them: category by category
RECURSIVE VisitOrder(_, _)
VisitOrder(items, cats) ==
    IF cats = << >> THEN << >>
    ELSE SelectSeq(items, LAMBDA it : CategoryOf(it) = Head(cats))
           \o VisitOrder(items, Tail(cats))

\* (each intermediate value is bound through a singleton set, which makes
\* TLC evaluate it once and not at every use)
Grouped(items) ==
    CHOOSE visit \in {VisitOrder(items, cats) : cats \in {CategoryOrder(items, << >>)}} : TRUE

\* a prompt is the opening sentence, one line per item (under the header of
\* its category) and the closing sentence with the style description
build_menu_prompt(restaurant_name, items, style) ==
    CHOOSE prompt \in {
        [head |-> "Professional restaurant menu for <name> with food photography layout.",
         restaurant_name |-> restaurant_name,
         lines |-> [j \in 1..Len(visit) |->
                      [header |-> Upper(CategoryOf(visit[j])),
                       name |-> Get(visit[j], "name", ""),
                       price |-> Get(visit[j], "price", 0),
                       desc |-> Get(visit[j], "description", ""),
                       photo |-> HasImage(visit[j])]],
         style_desc |-> StyleDesc(style)] : visit \in {Grouped(items)}} : TRUE

build_menu_prompt_with_images(restaurant_name, items, style) ==
    CHOOSE prompt \in {
      LET \* value of image_index when the j-th visited item is reached
          image_index(j) == 1 + Cardinality({i \in 1..(j - 1) : HasImage(visit[i])})
      IN [head |-> "Professional restaurant menu layout for <name>.",
         restaurant_name |-> restaurant_name,
         lines |-> [j \in 1..Len(visit) |->
                      [header |-> Upper(CategoryOf(visit[j])),
                       name |-> Get(visit[j], "name", ""),
                       price |-> Get(visit[j], "price", 0),
                       \* "Place image k (name, $price)", or 0: a text-only line
                       place |-> IF HasImage(visit[j]) THEN image_index(j) ELSE 0]],
         style_desc |-> StyleDesc(style)] : visit \in {Grouped(items)}} : TRUE

-----------------------------------------------------------------------------
(* backend/app.py: calls of the image service *)

TEXT_TO_IMAGE == "fal-ai/beta-image-232/text-to-image"
EDIT == "fal-ai/beta-image-232/edit"

\* what one fal_client.subscribe call does: returns a result whose first
\* image has url `val`, or raises with message `val` (a result without
\* images raises inside the caller in the same way)
FalOk(url) == [kind |-> "ok", val |-> url]
FalRaise(msg) == [kind |-> "raise", val |-> msg]

\* URLs the service returns for the food photo of the i-th item
FoodUrls == <<"food1.png", "food2.png", "food3.png", "food4.png">>
FoodOutcome(i, kind) == IF kind = "ok" THEN FalOk(FoodUrls[i]) ELSE FalRaise("fal error")
ComposeOutcomes == {FalOk("menu.png"), FalRaise("fal error")}

generate_food_image(food_name, description, out) ==
    IF out.kind = "ok" THEN out.val ELSE ""

\* mutant: the imageUrl of every item, empty ones included
FoodImageUrlsUnfiltered(items) ==
    [i \in 1..Len(items) |-> Get(items[i], "imageUrl", "")]

\* [item['imageUrl'] for item in items if item.get('imageUrl')]
FoodImageUrls(items) ==
    LET with == SelectSeq(items, HasImage)
    IN  [i \in 1..Len(with) |-> with[i].imageUrl]

\* mutant: the ready record keeps only the items that have a food image
generate_menu_variant_visual_filtered(restaurant_name, items, style, variant_id, out) ==
    LET food_image_urls == FoodImageUrls(items)
        prompt == IF food_image_urls # << >>
                  THEN build_menu_prompt_with_images(restaurant_name, items, style)
                  ELSE build_menu_prompt(restaurant_name, items, style)
        call == IF food_image_urls # << >>
                THEN [endpoint |-> EDIT, image_urls |-> food_image_urls, prompt |-> prompt]
                ELSE [endpoint |-> TEXT_TO_IMAGE, prompt |-> prompt]
    IN  [call |-> call,
         variant |->
           IF out.kind = "ok"
           THEN [id |-> variant_id,
                 restaurantName |-> restaurant_name,
                 items |-> SelectSeq(items, HasImage),
                 imageUrl |-> out.val,
                 prompt |-> prompt,
                 style |-> style,
                 status |-> "ready"]
           ELSE [id |-> variant_id,
                 status |-> "error",
                 error |-> out.val]]

(* generate_menu_variant_visual: `variant` is the returned record, `call`    *)
(* the composition call it made.                                             *)
generate_menu_variant_visual(restaurant_name, items, style, variant_id, out) ==
    LET food_image_urls == FoodImageUrls(items)
        prompt == IF food_image_urls # << >>
                  THEN build_menu_prompt_with_images(restaurant_name, items, style)
                  ELSE build_menu_prompt(restaurant_name, items, style)
        call == IF food_image_urls # << >>
                THEN [endpoint |-> EDIT, image_urls |-> food_image_urls, prompt |-> prompt]
                ELSE [endpoint |-> TEXT_TO_IMAGE, prompt |-> prompt]
    IN  [call |-> call,
         variant |->
           IF out.kind = "ok"
           THEN [id |-> variant_id,
                 restaurantName |-> restaurant_name,
                 items |-> items,
                 imageUrl |-> out.val,
                 prompt |-> prompt,
                 style |-> style,
                 status |-> "ready"]
           ELSE [id |-> variant_id,
                 status |-> "error",
                 error |-> out.val]]

-----------------------------------------------------------------------------
(* backend/app.py: the variant-generation session workflow *)

Requests == 1..NumRequests

\* mutant: every request gets the same identifier
NewSessionIdShared(r) == 1

\* str(uuid.uuid4()): a fresh identifier per request
NewSessionId(r) == r

\* identifiers a client may poll: those of the requests and one never issued
PollIds == 0..NumRequests

styles == <<"elegant", "modern", "vintage">>

\* mutant: the slots are keyed from 0
InitialVariantsZeroBased ==
    (0 :> [status |-> "generating"]) @@
    (1 :> [status |-> "pending"]) @@
    (2 :> [status |-> "pending"])

\* the `variants` dict a session is created with
InitialVariants ==
    (1 :> [status |-> "generating"]) @@
    (2 :> [status |-> "pending"]) @@
    (3 :> [status |-> "pending"])

\* variant_sessions[session_id]['variants'][k] = variant
StoreVariant(sessions, session_id, k, variant) ==
    [sessions EXCEPT ![session_id] =
        [@ EXCEPT !.variants = DictSet(@, k, variant)]]

\* the status a record shows; v.get('status') is None when the key is absent
StatusOf(v) == Get(v, "status", NoneStr)

\* /api/generate-variants, from the start of the request to the creation of
\* the session: menu text (step 1), food images (step 2), session insert.
\* `step` is how generate_menu_json ended, `imgs` what the image service
\* does on the food photo of each item.  All of it is local to the request
\* thread until the store is written.
GenerateVariantsBegin(r, step, imgs) ==
    /\ pc[r] = "start"
    /\ LET session_id == NewSessionId(r)
           menu_data == step.menu
           restaurant_name == Get(menu_data, "restaurantName", "Restaurant")
           items0 == Get(menu_data, "items", << >>)
           \* item['name'] raises KeyError on an item without that key
           raises == \E i \in 1..Len(items0) : "name" \notin DOMAIN items0[i]
           \* the items the loop gets through: all of them, or those before
           \* the first one without a name
           processed == IF step.kind = "raise" THEN 0
                        ELSE IF raises
                        THEN (CHOOSE i \in 1..Len(items0) :
                                 /\ "name" \notin DOMAIN items0[i]
                                 /\ \A j \in 1..(i - 1) : "name" \in DOMAIN items0[j]) - 1
                        ELSE Len(items0)
           \* the calls of generate_food_image made, in order
           food_calls == [i \in 1..processed |->
                             [food_name |-> items0[i].name, out |-> imgs[i]]]
           items == [i \in 1..Len(items0) |->
                       DictSet(items0[i], "imageUrl",
                               generate_food_image(Get(items0[i], "name", ""),
                                                   Get(items0[i], "description", ""),
                                                   imgs[i]))]
       IN  IF step.kind = "raise" \/ raises
           THEN /\ response' = [response EXCEPT ![r] =
                                   [status_code |-> 500,
                                    error |-> IF raises THEN "'name'" ELSE "menu generation failed",
                                    sessionId |-> session_id]]
                /\ locals' = [locals EXCEPT ![r] =
                                 [session_id |-> session_id,
                                  food_calls |-> food_calls]]
                /\ pc' = [pc EXCEPT ![r] = "done"]
                /\ UNCHANGED variant_sessions
           ELSE /\ variant_sessions' =
                       DictSet(variant_sessions, session_id,
                               [user_prompt |-> "a burger joint",
                                restaurant_name |-> restaurant_name,
                                items |-> items,
                                variants |-> InitialVariants])
                /\ locals' = [locals EXCEPT ![r] =
                                 [session_id |-> session_id,
                                  restaurant_name |-> restaurant_name,
                                  items |-> items,
                                  food_calls |-> food_calls]]
                /\ pc' = [pc EXCEPT ![r] = "variant1"]
                /\ UNCHANGED response
    /\ UNCHANGED bg

\* mutant: variant 1 is rendered but not stored
GenerateVariantsRender1Unstored(r, out) ==
    /\ pc[r] = "variant1"
    /\ LET res == generate_menu_variant_visual(locals[r].restaurant_name, locals[r].items,
                                                styles[1], 1, out)
       IN  locals' = [locals EXCEPT ![r] = DictSet(@, "variant1", res.variant)]
    /\ pc' = [pc EXCEPT ![r] = "thread"]
    /\ UNCHANGED <<variant_sessions, bg, response>>

\* step 3a: render variant 1 and store it
GenerateVariantsRender1(r, out) ==
    /\ pc[r] = "variant1"
    /\ LET res == generate_menu_variant_visual(locals[r].restaurant_name, locals[r].items,
                                                styles[1], 1, out)
       IN  /\ variant_sessions' =
                  StoreVariant(variant_sessions, locals[r].session_id, 1, res.variant)
           /\ locals' = [locals EXCEPT ![r] = DictSet(@, "variant1", res.variant)]
    /\ pc' = [pc EXCEPT ![r] = "thread"]
    /\ UNCHANGED <<bg, response>>

\* mutant: the response is returned without starting the background thread
GenerateVariantsReturnNoThread(r) ==
    /\ pc[r] = "thread"
    /\ response' = [response EXCEPT ![r] =
                       [status_code |-> 200,
                        sessionId |-> locals[r].session_id,
                        variant1 |-> locals[r].variant1,
                        variant2 |-> [status |-> "generating"],
                        variant3 |-> [status |-> "generating"]]]
    /\ pc' = [pc EXCEPT ![r] = "done"]
    /\ UNCHANGED <<variant_sessions, locals, bg>>

\* step 3b: start the background thread and return the response
GenerateVariantsReturn(r) ==
    /\ pc[r] = "thread"
    /\ bg' = [bg EXCEPT ![r] = "variant2"]
    /\ response' = [response EXCEPT ![r] =
                       [status_code |-> 200,
                        sessionId |-> locals[r].session_id,
                        variant1 |-> locals[r].variant1,
                        variant2 |-> [status |-> "generating"],
                        variant3 |-> [status |-> "generating"]]]
    /\ pc' = [pc EXCEPT ![r] = "done"]
    /\ UNCHANGED <<variant_sessions, locals>>

\* mutant: the background thread stores its result one slot too low
BackgroundRenderWrongSlot(r, k, out) ==
    /\ bg[r] = (IF k = 2 THEN "variant2" ELSE "variant3")
    /\ variant_sessions' =
          StoreVariant(variant_sessions, locals[r].session_id, k - 1,
                       generate_menu_variant_visual(locals[r].restaurant_name,
                                                    locals[r].items, styles[k], k, out).variant)
    /\ bg' = [bg EXCEPT ![r] = IF k = 2 THEN "variant3" ELSE "done"]
    /\ UNCHANGED <<pc, locals, response>>

\* mutant: an error in variant 2 ends the background thread
BackgroundRenderStopsOnError(r, k, out) ==
    /\ bg[r] = (IF k = 2 THEN "variant2" ELSE "variant3")
    /\ LET res == generate_menu_variant_visual(locals[r].restaurant_name, locals[r].items,
                                                styles[k], k, out)
       IN  /\ variant_sessions' =
                  StoreVariant(variant_sessions, locals[r].session_id, k, res.variant)
           /\ bg' = [bg EXCEPT ![r] = IF k = 2 /\ res.variant.status # "error"
                                      THEN "variant3" ELSE "done"]
    /\ UNCHANGED <<pc, locals, response>>

\* generate_variants_background: render variant k (2, then 3) and store it
BackgroundRender(r, k, out) ==
    /\ bg[r] = (IF k = 2 THEN "variant2" ELSE "variant3")
    /\ LET res == generate_menu_variant_visual(locals[r].restaurant_name, locals[r].items,
                                                styles[k], k, out)
       IN  /\ variant_sessions' =
                  StoreVariant(variant_sessions, locals[r].session_id, k, res.variant)
    /\ bg' = [bg EXCEPT ![r] = IF k = 2 THEN "variant3" ELSE "done"]
    /\ UNCHANGED <<pc, locals, response>>

\* mutant: allReady counts an error as done
check_variant_status_done(sessions, session_id) ==
    IF session_id \notin DOMAIN sessions
    THEN [status_code |-> 404, error |-> "Session not found"]
    ELSE [status_code |-> 200,
          sessionId |-> session_id,
          variant1 |-> sessions[session_id].variants[1],
          variant2 |-> sessions[session_id].variants[2],
          variant3 |-> sessions[session_id].variants[3],
          allReady |-> \A k \in DOMAIN sessions[session_id].variants :
                          StatusOf(sessions[session_id].variants[k]) \in {"ready", "error"}]

\* mutant: no membership test, the lookup of an unknown key raises KeyError
check_variant_status_unguarded(sessions, session_id) ==
    IF session_id \notin DOMAIN sessions
    THEN [status_code |-> 500, error |-> "KeyError"]
    ELSE [status_code |-> 200,
          sessionId |-> session_id,
          variant1 |-> sessions[session_id].variants[1],
          variant2 |-> sessions[session_id].variants[2],
          variant3 |-> sessions[session_id].variants[3],
          allReady |-> \A k \in DOMAIN sessions[session_id].variants :
                          StatusOf(sessions[session_id].variants[k]) = "ready"]

\* /api/check-variant-status/<session_id>: the response for the store as it is
check_variant_status(sessions, session_id) ==
    IF session_id \notin DOMAIN sessions
    THEN [status_code |-> 404, error |-> "Session not found"]
    ELSE LET session == sessions[session_id]
         IN  [status_code |-> 200,
              sessionId |-> session_id,
              variant1 |-> session.variants[1],
              variant2 |-> session.variants[2],
              variant3 |-> session.variants[3],
              allReady |-> \A k \in DOMAIN session.variants :
                              StatusOf(session.variants[k]) = "ready"]

\* the handler only reads the store: its response is
\* check_variant_status(variant_sessions, session_id) and no state changes
CheckVariantStatus(session_id) ==
    /\ session_id \in PollIds
    /\ UNCHANGED <<variant_sessions, pc, locals, bg, response>>

InitSession ==
    /\ variant_sessions = << >>
    /\ pc = [r \in Requests |-> "start"]
    /\ locals = [r \in Requests |-> None]
    /\ bg = [r \in Requests |-> "none"]
    /\ response = [r \in Requests |-> None]

InitMenu ==
    /\ m_pc = "idle"
    /\ m_attempt = 0
    /\ m_seen = << >>
    /\ m_sleeps = << >>
    /\ m_result = None

InitCompose ==
    /\ c_in = None
    /\ c_out = None

Init == InitSession /\ InitMenu /\ InitCompose

Next ==
    \/ \E r \in Requests, step \in MenuResults :
           \E imgs \in [1..Len(Get(step.menu, "items", << >>)) -> {"ok", "raise"}] :
              /\ GenerateVariantsBegin(r, step,
                    [i \in DOMAIN imgs |-> FoodOutcome(i, imgs[i])])
              /\ UNCHANGED <<menuVars, composeVars>>
    \/ \E r \in Requests, out \in ComposeOutcomes :
           GenerateVariantsRender1(r, out) /\ UNCHANGED <<menuVars, composeVars>>
    \/ \E r \in Requests :
           GenerateVariantsReturn(r) /\ UNCHANGED <<menuVars, composeVars>>
    \/ \E r \in Requests, k \in {2, 3}, out \in ComposeOutcomes :
           BackgroundRender(r, k, out) /\ UNCHANGED <<menuVars, composeVars>>
    \/ \E session_id \in PollIds :
           CheckVariantStatus(session_id) /\ UNCHANGED <<menuVars, composeVars>>

Spec == Init /\ [][Next]_vars

-----------------------------------------------------------------------------
(* generate_menu_json step by step: one remote call per step *)

MenuStart ==
    /\ m_pc = "idle"
    /\ m_pc' = "calling"
    /\ m_attempt' = 0
    /\ UNCHANGED <<m_seen, m_sleeps, m_result>>

MenuCall(out) ==
    /\ m_pc = "calling"
    /\ m_seen' = Append(m_seen, out)
    /\ LET s == MenuAttempt(m_attempt, out)
       IN  CASE s.kind = "retry" ->
                  /\ m_sleeps' = Append(m_sleeps, s.sleep)
                  /\ m_attempt' = m_attempt + 1
                  \* the loop ends after max_retries iterations: safety fallback
                  /\ IF m_attempt + 1 >= max_retries
                     THEN m_pc' = "returned" /\ m_result' = _get_fallback_menu
                     ELSE UNCHANGED <<m_pc, m_result>>
             [] s.kind = "return" ->
                  /\ m_pc' = "returned"
                  /\ m_result' = s.menu
                  /\ UNCHANGED <<m_attempt, m_sleeps>>
             [] OTHER ->
                  /\ m_pc' = "raised"
                  /\ UNCHANGED <<m_attempt, m_sleeps, m_result>>

NextMenu ==
    \/ MenuStart /\ UNCHANGED <<sessionVars, composeVars>>
    \/ \E out \in Outcomes : MenuCall(out) /\ UNCHANGED <<sessionVars, composeVars>>

SpecMenu == Init /\ [][NextMenu]_vars

-----------------------------------------------------------------------------
(* The composition step, applied to item lists of every shape *)

FOOD_IMAGE == "fal-ai/beta-image-232"

ItemNames == <<"Classic Burger", "Fries", "Cola", "Sundae">>
GivenUrls == <<"given1.png", "given2.png", "given3.png", "given4.png">>

\* the items a caller may send at position i: two categories; imageUrl
\* absent, empty or given
ItemsAt(i) ==
    LET base(cat) == [category |-> cat, name |-> ItemNames[i], price |-> i]
    IN  UNION {{base(cat),
                DictSet(base(cat), "imageUrl", ""),
                DictSet(base(cat), "imageUrl", GivenUrls[i])} : cat \in {"Burgers", "Sides"}}

ItemLists ==
    UNION {{items \in [1..n -> UNION {ItemsAt(i) : i \in 1..n}] :
               \A i \in 1..n : items[i] \in ItemsAt(i)} : n \in 0..MaxItems}

ComposeInputs ==
    {[restaurantName |-> "Burger Barn", items |-> items, style |-> style] :
        items \in ItemLists, style \in {"elegant", "retro"}}

(* /api/generate: `calls` are the calls of the image service in order,       *)
(* `items` the items when the composition call is made, `raised` whether an  *)
(* exception left the handler, `body` the JSON returned otherwise.           *)
generate_menu(data, imgs, out) ==
    LET restaurant_name == Get(data, "restaurantName", "Restaurant")
        items0 == Get(data, "items", << >>)
        style == Get(data, "style", "modern")
        items == [i \in 1..Len(items0) |->
                    IF ~HasImage(items0[i])
                    THEN DictSet(items0[i], "imageUrl",
                                 generate_food_image(items0[i].name,
                                                     Get(items0[i], "description", ""),
                                                     imgs[i]))
                    ELSE items0[i]]
        lacking == SelectSeq([i \in 1..Len(items0) |-> i], LAMBDA i : ~HasImage(items0[i]))
        food_calls == [j \in 1..Len(lacking) |->
                         [endpoint |-> FOOD_IMAGE, food_name |-> items0[lacking[j]].name]]
        food_image_urls == FoodImageUrls(items)
        prompt == IF food_image_urls = << >>
                  THEN build_menu_prompt(restaurant_name, items, style)
                  ELSE build_menu_prompt_with_images(restaurant_name, items, style)
        call == IF food_image_urls = << >>
                THEN [endpoint |-> TEXT_TO_IMAGE, prompt |-> prompt]
                ELSE [endpoint |-> EDIT, image_urls |-> food_image_urls, prompt |-> prompt]
    IN  [calls |-> Append(food_calls, call),
         items |-> items,
         raised |-> out.kind # "ok",
         body |-> IF out.kind = "ok"
                  THEN [imageUrl |-> out.val, prompt |-> prompt, items |-> items]
                  ELSE None]

ComposeVariant(variant_id, out) ==
    /\ c_out = None
    /\ LET res == generate_menu_variant_visual(c_in.restaurantName, c_in.items,
                                                c_in.style, variant_id, out)
       IN  c_out' = [op |-> "generate_menu_variant_visual",
                     items |-> c_in.items,
                     calls |-> <<res.call>>,
                     raised |-> FALSE,
                     body |-> res.variant]
    /\ UNCHANGED c_in

ApiGenerate(imgs, out) ==
    /\ c_out = None
    /\ c_out' = [op |-> "generate_menu"] @@ generate_menu(c_in, imgs, out)
    /\ UNCHANGED c_in

InitComposeInputs ==
    /\ InitSession
    /\ InitMenu
    /\ c_in \in ComposeInputs
    /\ c_out = None

NextCompose ==
    \/ \E variant_id \in 1..3, out \in ComposeOutcomes :
           ComposeVariant(variant_id, out) /\ UNCHANGED <<sessionVars, menuVars>>
    \/ \E imgs \in [1..Len(c_in.items) -> {"ok", "raise"}], out \in ComposeOutcomes :
           /\ ApiGenerate([i \in DOMAIN imgs |-> FoodOutcome(i, imgs[i])], out)
           /\ UNCHANGED <<sessionVars, menuVars>>

SpecCompose == InitComposeInputs /\ [][NextCompose]_vars

-----------------------------------------------------------------------------
(* Properties *)

Slots == 1..3
SlotStatus(session_id, k) == StatusOf(variant_sessions[session_id].variants[k])
Terminal == {"ready", "error"}

\* C1: every response of /api/generate-variants carries a session identifier
\* and a variant1 whose status is ready or error, whatever the remote
\* services returned or raised.
C1_ResponseCarriesVariant1 ==
    \A r \in Requests :
        response[r] # None =>
            /\ "sessionId" \in DOMAIN response[r]
            /\ "variant1" \in DOMAIN response[r]
            /\ StatusOf(response[r].variant1) \in Terminal

\* C2: in every state, a poll of a stored session returns allReady = TRUE
\* exactly when the three slots all have status ready; a slot in error stays
\* in error, and while a slot is in error the poll returns allReady = FALSE.
C2_AllReadyIffThreeReady ==
    /\ [](\A session_id \in DOMAIN variant_sessions :
             LET resp == check_variant_status(variant_sessions, session_id)
             IN  /\ resp.allReady =
                        (\A k \in Slots : SlotStatus(session_id, k) = "ready")
                 /\ (\E k \in Slots : SlotStatus(session_id, k) = "error") =>
                        resp.allReady = FALSE)
    /\ [][\A session_id \in DOMAIN variant_sessions, k \in Slots :
             SlotStatus(session_id, k) = "error" =>
                 StatusOf(variant_sessions'[session_id].variants[k]) = "error"]_vars

C2_Witness ==
    \E a \in DOMAIN variant_sessions, b \in DOMAIN variant_sessions :
        /\ check_variant_status(variant_sessions, a).allReady
        /\ SlotStatus(b, 1) = "ready"
        /\ SlotStatus(b, 2) = "error"
        /\ SlotStatus(b, 3) = "ready"
        /\ ~check_variant_status(variant_sessions, b).allReady

\* C3: the status of a slot is monotonic: a session is created with its slots
\* in pending or generating, a slot in pending or generating stays so or
\* moves to ready or error, and a slot in ready or error never changes.
C3_StatusMonotonic ==
    [][ /\ \A session_id \in DOMAIN variant_sessions' \ DOMAIN variant_sessions :
             \A k \in Slots :
                 StatusOf(variant_sessions'[session_id].variants[k])
                     \in {"pending", "generating"}
        /\ \A session_id \in DOMAIN variant_sessions, k \in Slots :
             LET before == SlotStatus(session_id, k)
                 after == StatusOf(variant_sessions'[session_id].variants[k])
             IN  /\ session_id \in DOMAIN variant_sessions'
                 /\ before \in Terminal => after = before
                 /\ before \notin Terminal => after \in {before} \cup Terminal
      ]_vars

C3_Witness ==
    \E r \in Requests :
        /\ bg[r] = "done"
        /\ SlotStatus(locals[r].session_id, 1) = "error"
        /\ SlotStatus(locals[r].session_id, 2) = "ready"
        /\ SlotStatus(locals[r].session_id, 3) = "error"
        /\ \E q \in Requests : q # r /\ pc[q] = "variant1"

\* C4 as stated: in every state the three variant records of a session carry
\* identical restaurantName and items.
C4_AllRecordsCarrySameMenu ==
    \A session_id \in DOMAIN variant_sessions :
        \A j \in Slots, k \in Slots :
            LET vj == variant_sessions[session_id].variants[j]
                vk == variant_sessions[session_id].variants[k]
            IN  /\ {"restaurantName", "items"} \subseteq DOMAIN vj
                /\ vj.restaurantName = vk.restaurantName
                /\ vj.items = vk.items

\* C4 amended: every variant record with status ready carries the session's
\* restaurantName and items, so any two ready records of a session agree on
\* them by value; a record in pending, generating or error carries neither.
C4_ReadyRecordsCarrySameMenu ==
    \A session_id \in DOMAIN variant_sessions :
        LET session == variant_sessions[session_id]
        IN  \A j \in Slots :
                LET vj == session.variants[j]
                IN  IF StatusOf(vj) = "ready"
                    THEN /\ {"restaurantName", "items"} \subseteq DOMAIN vj
                         /\ vj.restaurantName = session.restaurant_name
                         /\ vj.items = session.items
                         /\ \A k \in Slots :
                                StatusOf(session.variants[k]) = "ready" =>
                                    /\ session.variants[k].restaurantName = vj.restaurantName
                                    /\ session.variants[k].items = vj.items
                    ELSE {"restaurantName", "items"} \cap DOMAIN vj = {}

C4_Witness ==
    \E session_id \in DOMAIN variant_sessions :
        /\ SlotStatus(session_id, 1) = "ready"
        /\ SlotStatus(session_id, 2) = "error"
        /\ SlotStatus(session_id, 3) = "ready"
        /\ \E i \in DOMAIN variant_sessions[session_id].items :
               HasImage(variant_sessions[session_id].items[i])

\* C5: once /api/generate-variants has returned, variant 2 (variant 3) shows
\* status generating until its rendering completes, in the immediate
\* response and in every result of check_variant_status for the session.
C5_GeneratingUntilRendered ==
    \A r \in Requests :
        (response[r] # None /\ response[r].status_code = 200) =>
            LET polled == check_variant_status(variant_sessions, response[r].sessionId)
            IN  /\ StatusOf(response[r].variant2) = "generating"
                /\ StatusOf(response[r].variant3) = "generating"
                /\ polled.status_code = 200
                /\ bg[r] = "variant2" => StatusOf(polled.variant2) = "generating"
                /\ bg[r] \in {"variant2", "variant3"} =>
                       StatusOf(polled.variant3) = "generating"

\* C6: in every state of the store, a poll with an identifier that is not a
\* key of the store is answered 404 "Session not found".
C6_UnknownSessionNotFound ==
    \A session_id \in PollIds \ DOMAIN variant_sessions :
        check_variant_status(variant_sessions, session_id) =
            [status_code |-> 404, error |-> "Session not found"]

C6_Witness ==
    \E r \in Requests, q \in Requests :
        /\ pc[r] = "start"
        /\ pc[q] = "variant1"
        /\ DOMAIN variant_sessions = {NewSessionId(q)}
        /\ check_variant_status(variant_sessions, NewSessionId(r)).status_code = 404

C8_ExactlyThreeSlots ==
    \A session_id \in DOMAIN variant_sessions :
        DOMAIN variant_sessions[session_id].variants = {1, 2, 3}

C8_Witness ==
    \E r \in Requests :
        /\ bg[r] = "done"
        /\ DOMAIN variant_sessions[locals[r].session_id].variants = {1, 2, 3}
        /\ \E q \in Requests : pc[q] = "thread"

\* C9: once a request has returned, with any outcome, the store holds a
\* session under the identifier the response carries, and a poll of that
\* identifier is not answered 404.
C9_ReturnedRequestHasSession ==
    \A r \in Requests :
        response[r] # None =>
            /\ response[r].sessionId \in DOMAIN variant_sessions
            /\ check_variant_status(variant_sessions, response[r].sessionId).status_code # 404

\* the non-empty imageUrl values of an item list, in list order
RECURSIVE NonEmptyUrls(_)
NonEmptyUrls(items) ==
    IF items = << >> THEN << >>
    ELSE LET url == IF "imageUrl" \in DOMAIN Head(items) THEN Head(items).imageUrl ELSE ""
         IN  (IF url = "" THEN << >> ELSE <<url>>) \o NonEmptyUrls(Tail(items))

\* C10: the composition step makes exactly one composition call: to
\* text-to-image with the prompt of build_menu_prompt when no item has a
\* non-empty imageUrl, and otherwise to edit with the prompt of
\* build_menu_prompt_with_images and exactly the non-empty imageUrls as
\* sources; in generate_menu_variant_visual and in /api/generate alike.
C10_CompositionPath ==
    c_out # None =>
        LET composition == SelectSeq(c_out.calls,
                                     LAMBDA c : c.endpoint \in {TEXT_TO_IMAGE, EDIT})
            urls == NonEmptyUrls(c_out.items)
            style == IF c_out.op = "generate_menu" THEN Get(c_in, "style", "modern")
                     ELSE c_in.style
        IN  /\ Len(composition) = 1
            /\ IF urls = << >>
               THEN composition[1] =
                      [endpoint |-> TEXT_TO_IMAGE,
                       prompt |-> build_menu_prompt(c_in.restaurantName, c_out.items, style)]
               ELSE composition[1] =
                      [endpoint |-> EDIT,
                       image_urls |-> urls,
                       prompt |-> build_menu_prompt_with_images(c_in.restaurantName,
                                                                c_out.items, style)]

C10_Witness ==
    /\ c_out # None
    /\ c_out.op = "generate_menu"
    /\ Len(c_out.items) = 3
    /\ Len(NonEmptyUrls(c_out.items)) = 2
    /\ c_out.calls[Len(c_out.calls)].endpoint = EDIT
    /\ Len(c_out.calls) = 3

\* C11: when a remote call fails with a non-rate-limit APIError,
\* generate_menu_json returns the fallback menu at once: that call is the
\* last one made and no wait follows it, whichever attempt it occurs on.
C11_ApiErrorImmediateFallback ==
    \A i \in DOMAIN m_seen :
        m_seen[i].kind = "APIError" =>
            /\ i = Len(m_seen)
            /\ m_pc = "returned"
            /\ m_result = _get_fallback_menu
            /\ Len(m_sleeps) = i - 1

\* the number of consecutive rate-limited calls that end with call i
RECURSIVE RateLimitedRun(_)
RateLimitedRun(i) ==
    IF i = 0 \/ m_seen[i].kind # "RateLimitError" THEN 0 ELSE 1 + RateLimitedRun(i - 1)

\* C12: generate_menu_json makes at most 3 remote calls; after the k-th
\* consecutive rate-limited call (k = 1, 2) it waits k * retry_delay (2 s,
\* then 4 s) and retries; after the 3rd it returns the fallback menu without
\* waiting or calling again; the function has ended after at most 3 calls.
C12_RateLimitBackoff ==
    /\ Len(m_seen) <= 3
    /\ Len(m_seen) = 3 => m_pc = "returned"
    /\ \A i \in DOMAIN m_seen :
           m_seen[i].kind = "RateLimitError" =>
               LET k == RateLimitedRun(i)
               IN  IF k <= 2
                   THEN /\ Len(m_sleeps) >= i
                        /\ m_sleeps[i] = k * retry_delay
                        /\ m_pc = "calling" \/ Len(m_seen) > i
                   ELSE /\ i = Len(m_seen)
                        /\ Len(m_sleeps) = i - 1
                        /\ m_pc = "returned"
                        /\ m_result = _get_fallback_menu

\* a response text that is empty, not JSON, without restaurantName, with
\* items missing, not a list or empty, or whose first item lacks category,
\* name or price
FailsStructure(content) ==
    LET t == content.text
    IN  \/ t.kind \in {"empty", "garbage", "jsonlist"}
        \/ /\ t.kind = "json"
           /\ \/ "restaurantName" \notin DOMAIN t.obj
              \/ "items" \notin DOMAIN t.obj
              \/ ~t.obj.items.islist
              \/ t.obj.items.elems = << >>
              \/ ~({"category", "name", "price"} \subseteq DOMAIN t.obj.items.elems[1])

\* C13: a successful call whose response fails structural validation makes
\* generate_menu_json return the fallback menu on that attempt, with no
\* retry and no wait; every menu returned is the fallback menu or the parse
\* of a response that passed validation.
C13_InvalidResponseFallsBack ==
    /\ \A i \in DOMAIN m_seen :
           (m_seen[i].kind = "ok" /\ FailsStructure(m_seen[i].content)) =>
               /\ i = Len(m_seen)
               /\ Len(m_sleeps) = i - 1
               /\ m_pc = "returned"
               /\ m_result = _get_fallback_menu
    /\ m_pc = "returned" =>
           \/ m_result = _get_fallback_menu
           \/ LET last == m_seen[Len(m_seen)]
              IN  /\ last.kind = "ok"
                  /\ ~FailsStructure(last.content)
                  /\ _validate_response(_extract_reasoning(last.content))
                  /\ m_result = _parse_json_response(_extract_reasoning(last.content))
                  /\ "restaurantName" \in DOMAIN m_result
                  /\ Len(m_result.items) > 0
                  /\ {"category", "name", "price"} \subseteq DOMAIN m_result.items[1]

C13_Witness ==
    /\ m_pc = "returned"
    /\ Len(m_seen) = 2
    /\ m_seen[1].kind = "RateLimitError"
    /\ m_seen[2] = Outcome("ok", Content(FALSE, FALSE, Text("json", FirstItemBadObj)))
    /\ m_sleeps = <<retry_delay>>
    /\ m_result = _get_fallback_menu

\* C14: in the variant workflow one call of the image client is made for
\* each item of the menu, in order; an item whose call failed has imageUrl
\* "" and no second call is made for it, the items after it are processed,
\* and the request creates the session and goes on to render variant 1.
C14_FoodImageFailureTolerated ==
    \A r \in Requests :
        (pc[r] # "start" /\ \E i \in DOMAIN locals[r].food_calls :
                                locals[r].food_calls[i].out.kind = "raise") =>
            /\ locals[r].session_id \in DOMAIN variant_sessions
            /\ response[r] # None => response[r].status_code = 200
            /\ LET items == variant_sessions[locals[r].session_id].items
                   food_calls == locals[r].food_calls
               IN  /\ Len(food_calls) = Len(items)
                   /\ \A i \in DOMAIN items :
                          /\ food_calls[i].food_name = items[i].name
                          /\ items[i].imageUrl =
                                 (IF food_calls[i].out.kind = "raise" THEN ""
                                  ELSE food_calls[i].out.val)
            /\ pc[r] # "variant1" => 1 \in DOMAIN variant_sessions[locals[r].session_id].variants
                                       /\ SlotStatus(locals[r].session_id, 1) \in Terminal

\* C15: a failed rendering is recorded in the slot of that variant as an
\* error record with the message; the step that records it changes no other
\* slot of any session and no response; the background thread still renders
\* and stores variant 3 after variant 2 ended in error; the response of the
\* request that started the thread stays the 200 it returned.
C15_VariantFailureIsolated ==
    /\ [](\A r \in Requests :
             pc[r] \in {"variant1", "thread", "done"} /\ NewSessionId(r) \in DOMAIN variant_sessions =>
                 LET session_id == locals[r].session_id
                 IN  /\ \A k \in Slots :
                            SlotStatus(session_id, k) = "error" =>
                                variant_sessions[session_id].variants[k] =
                                    [id |-> k, status |-> "error", error |-> "fal error"]
                     /\ bg[r] = "variant3" => SlotStatus(session_id, 2) \in Terminal
                     /\ bg[r] = "done" =>
                            /\ SlotStatus(session_id, 2) \in Terminal
                            /\ SlotStatus(session_id, 3) \in Terminal
                     /\ bg[r] # "none" =>
                            /\ response[r].status_code = 200
                            /\ response[r].variant1 = locals[r].variant1)
    /\ [][\A session_id \in DOMAIN variant_sessions, k \in Slots :
             (/\ SlotStatus(session_id, k) # "error"
              /\ StatusOf(variant_sessions'[session_id].variants[k]) = "error") =>
                 /\ \A other \in DOMAIN variant_sessions, j \in Slots :
                        <<other, j>> # <<session_id, k>> =>
                            variant_sessions'[other].variants[j] =
                                variant_sessions[other].variants[j]
                 /\ response' = response
                 /\ \A r \in Requests :
                        /\ bg[r] = "variant2" /\ bg'[r] # "variant2" => bg'[r] = "variant3"
                        /\ pc[r] = "variant1" /\ pc'[r] # "variant1" => pc'[r] = "thread"
       ]_vars

C15_Witness ==
    \E r \in Requests :
        /\ bg[r] = "done"
        /\ SlotStatus(locals[r].session_id, 1) = "ready"
        /\ variant_sessions[locals[r].session_id].variants[2] =
               [id |-> 2, status |-> "error", error |-> "fal error"]
        /\ SlotStatus(locals[r].session_id, 3) = "ready"
        /\ response[r].status_code = 200
        /\ StatusOf(response[r].variant1) = "ready"

\* the request thread of r still has writes of the store ahead of it
RequestWrites(r) == pc[r] \in {"start", "variant1"}
\* the background thread of r still has writes of the store ahead of it
BackgroundWrites(r) == bg[r] \in {"variant2", "variant3"}

\* C16: a session has at most one writer at a time: the request thread of r
\* has made all its writes (session insert, slot 1) when the background
\* thread of r starts, and then only that thread writes slots 2 and 3 of the
\* session of r; no step of a request or of a background thread changes a
\* session of another request.
C16_SingleWriterPerSession ==
    /\ [](/\ \A r \in Requests : ~(RequestWrites(r) /\ BackgroundWrites(r))
          /\ \A r \in Requests :
                 bg[r] # "none" => SlotStatus(locals[r].session_id, 1) \in Terminal
          /\ \A session_id \in DOMAIN variant_sessions :
                 Cardinality({r \in Requests :
                                 /\ pc[r] # "start"
                                 /\ locals[r].session_id = session_id
                                 /\ RequestWrites(r) \/ BackgroundWrites(r)}) <= 1)
    /\ [][\A session_id \in DOMAIN variant_sessions' :
             (\/ session_id \notin DOMAIN variant_sessions
              \/ variant_sessions'[session_id] # variant_sessions[session_id]) =>
                 \E r \in Requests :
                     /\ NewSessionId(r) = session_id
                     /\ \A q \in Requests \ {r} : pc'[q] = pc[q] /\ bg'[q] = bg[q]
                     /\ \A other \in DOMAIN variant_sessions \ {session_id} :
                            variant_sessions'[other] = variant_sessions[other]
                     /\ \/ /\ RequestWrites(r) /\ bg[r] = "none" /\ bg'[r] = "none"
                           /\ pc'[r] # pc[r]
                           /\ session_id \in DOMAIN variant_sessions =>
                                  \A k \in {2, 3} :
                                      variant_sessions'[session_id].variants[k] =
                                          variant_sessions[session_id].variants[k]
                        \/ /\ BackgroundWrites(r) /\ pc[r] = "done" /\ pc'[r] = "done"
                           /\ bg'[r] # bg[r]
                           /\ variant_sessions'[session_id].variants[1] =
                                  variant_sessions[session_id].variants[1]
       ]_vars

C16_Witness ==
    \E r \in Requests, q \in Requests :
        /\ BackgroundWrites(r) /\ bg[r] = "variant3"
        /\ SlotStatus(locals[r].session_id, 2) \in Terminal
        /\ RequestWrites(q) /\ pc[q] = "variant1"
        /\ locals[q].session_id # locals[r].session_id
        /\ SlotStatus(locals[q].session_id, 1) = "generating"

-----------------------------------------------------------------------------
(* The handlers that keep no session: /api/surprise, /api/generate, /api/edit *)

EditInputs == {[imageUrl |-> "menu.png", editInstruction |-> "make the title larger"]}
SurpriseInputs == {[prompt |-> "a burger joint"]}

\* generate_menu_content: `step` is how nvidia_client.generate_menu_json ended
generate_menu_content(user_prompt, step) ==
    IF step.kind = "raise"
    THEN [restaurantName |-> "The Restaurant",
          items |-> << [category |-> "Appetizers", name |-> "Soup of the Day",
                        price |-> 6, description |-> "Fresh daily soup"],
                       [category |-> "Main Course", name |-> "Grilled Chicken",
                        price |-> 16, description |-> "Herb-marinated chicken breast"],
                       [category |-> "Desserts", name |-> "Cheesecake",
                        price |-> 7, description |-> "Classic New York style"] >>]
    ELSE step.menu

\* /api/surprise
surprise_me(data, step) ==
    LET user_prompt == Get(data, "prompt", "a burger joint")
    IN  [calls |-> << >>,
         raised |-> FALSE,
         body |-> generate_menu_content(user_prompt, step)]

\* /api/edit: one call of the edit endpoint, outside any try
edit_menu(data, out) ==
    LET image_url == Get(data, "imageUrl", NoneStr)
        edit_instruction == Get(data, "editInstruction", NoneStr)
    IN  [calls |-> <<[endpoint |-> EDIT,
                      image_urls |-> <<image_url>>,
                      prompt |-> edit_instruction]>>,
         raised |-> out.kind # "ok",
         body |-> IF out.kind = "ok" THEN [imageUrl |-> out.val] ELSE None]

ApiSurprise(step) ==
    /\ c_out = None
    /\ c_in \in SurpriseInputs
    /\ c_out' = [op |-> "surprise_me"] @@ surprise_me(c_in, step)
    /\ UNCHANGED c_in

ApiEdit(out) ==
    /\ c_out = None
    /\ c_in \in EditInputs
    /\ c_out' = [op |-> "edit_menu"] @@ edit_menu(c_in, out)
    /\ UNCHANGED c_in

InitApi ==
    /\ InitSession
    /\ InitMenu
    /\ c_in \in ComposeInputs \cup EditInputs \cup SurpriseInputs
    /\ c_out = None

NextApi ==
    \/ \E step \in MenuResults :
           ApiSurprise(step) /\ UNCHANGED <<sessionVars, menuVars>>
    \/ /\ c_in \in ComposeInputs
       /\ \E imgs \in [1..Len(c_in.items) -> {"ok", "raise"}], out \in ComposeOutcomes :
              /\ ApiGenerate([i \in DOMAIN imgs |-> FoodOutcome(i, imgs[i])], out)
              /\ UNCHANGED <<sessionVars, menuVars>>
    \/ \E out \in ComposeOutcomes :
           ApiEdit(out) /\ UNCHANGED <<sessionVars, menuVars>>

SpecApi == InitApi /\ [][NextApi]_vars

\* C17: on /api/surprise, /api/generate and /api/edit no failure of a remote
\* call leaves the handler as an unhandled exception: every request ends
\* with a response body.
C17_NoUnhandledException ==
    c_out # None =>
        /\ ~c_out.raised
        /\ c_out.body # None

\* C18: the variants of a session complete in the order 1, 2, 3: slot 3 in
\* ready or error implies slot 2 in ready or error, which implies slot 1 in
\* ready or error; the background thread of a request exists only when
\* slot 1 of its session has been written.
C18_CompletionOrder ==
    /\ \A session_id \in DOMAIN variant_sessions :
           /\ SlotStatus(session_id, 3) \in Terminal => SlotStatus(session_id, 2) \in Terminal
           /\ SlotStatus(session_id, 2) \in Terminal => SlotStatus(session_id, 1) \in Terminal
    /\ \A r \in Requests :
           bg[r] # "none" =>
               /\ locals[r].session_id \in DOMAIN variant_sessions
               /\ variant_sessions[locals[r].session_id].variants[1] = locals[r].variant1
               /\ StatusOf(locals[r].variant1) \in Terminal

C18_Witness ==
    \E r \in Requests, q \in Requests :
        /\ bg[r] = "variant3"
        /\ SlotStatus(locals[r].session_id, 1) = "error"
        /\ SlotStatus(locals[r].session_id, 2) = "ready"
        /\ SlotStatus(locals[r].session_id, 3) \notin Terminal
        /\ bg[q] = "done"
        /\ \A k \in Slots : SlotStatus(locals[q].session_id, k) \in Terminal

-----------------------------------------------------------------------------
(* The session workflow with a fairly scheduled background thread *)

\* a step of the background thread of request r: its composition call has
\* returned or raised
BackgroundStep(r) ==
    \E k \in {2, 3}, out \in ComposeOutcomes :
        BackgroundRender(r, k, out) /\ UNCHANGED <<menuVars, composeVars>>

SpecFair == Init /\ [][Next]_vars /\ \A r \in Requests : WF_vars(BackgroundStep(r))

\* C19: for every request that returned a session identifier with variant1,
\* when the background thread is scheduled fairly and each composition call
\* returns or raises, slots 2 and 3 of the session both eventually are ready
\* or error.
C19_BackgroundCompletes ==
    \A r \in Requests :
        (/\ response[r] # None
         /\ response[r].status_code = 200
         /\ "variant1" \in DOMAIN response[r])
            ~> (/\ response[r] # None
                /\ response[r].sessionId \in DOMAIN variant_sessions
                /\ SlotStatus(response[r].sessionId, 2) \in Terminal
                /\ SlotStatus(response[r].sessionId, 3) \in Terminal)

C19_Witness ==
    \E r \in Requests :
        /\ response[r] # None
        /\ response[r].status_code = 200
        /\ bg[r] = "done"
        /\ SlotStatus(response[r].sessionId, 2) = "error"
        /\ SlotStatus(response[r].sessionId, 3) = "error"

\* C20: when the composition call goes to the edit endpoint, the prompt line
\* "Place image k" names the item whose imageUrl is the k-th entry of the
\* image_urls sent with the prompt, for every item list, and the number of
\* "Place image" lines equals the number of URLs sent.
C20_ImageReferencesMatchUrls ==
    (c_out # None /\ c_out.op \in {"generate_menu", "generate_menu_variant_visual"}) =>
        LET call == c_out.calls[Len(c_out.calls)]
        IN  call.endpoint = EDIT =>
                LET placed == SelectSeq(call.prompt.lines, LAMBDA line : line.place # 0)
                IN  /\ Len(placed) = Len(call.image_urls)
                    /\ \A j \in DOMAIN placed :
                           /\ placed[j].place \in DOMAIN call.image_urls
                           /\ \E i \in DOMAIN c_out.items :
                                  /\ c_out.items[i].name = placed[j].name
                                  /\ HasImage(c_out.items[i])
                                  /\ c_out.items[i].imageUrl = call.image_urls[placed[j].place]

====
